---- MODULE Spec2Model ----
(***************************************************************************)
(* Model of RNN/TMVA/TMVA_Models_Reduced.C.                                *)
(*                                                                         *)
(* Two entry points are modelled, each with its own specification:         *)
(*   Spec     MakeTimeData(n, ntime, ndim), the toy data generator, run    *)
(*            statement group by statement group, and called a second      *)
(*            time with the same arguments;                                *)
(*   SpecCls  TMVA_RNN_Classification(use_type), the macro that checks for *)
(*            the data file, generates it if needed, loads it and books    *)
(*            the recurrent network.                                       *)
(*                                                                         *)
(* ROOT itself (TH1, TF1, TTree, TFile, TRandom, TMVA) is not part of the  *)
(* repository.  Its objects are modelled by the effect the macro relies    *)
(* on: a histogram is an array of bin contents, a tree a list of rows read *)
(* through the addresses its branches were given, a file the set of        *)
(* objects written to it, the random generator a stream fixed by its seed. *)
(***************************************************************************)
EXTENDS Integers, Sequences, FiniteSets, TLC

VARIABLES
  \* ---- MakeTimeData: arguments and locals (source names) ----
  gpc,        \* position in MakeTimeData
  n, ntime, ndim,
  fname,      \* TString fname
  v1, v2,     \* std::vector<TH1*>
  f1, f2,     \* TF1*
  sgn, bkg,   \* TTree
  f,          \* TFile
  x1, x2,     \* std::vector<std::vector<float>>
  mean1, mean2, sigma1, sigma2,
  i, j, k,    \* loop counters of the event, time-step and feature loops
  canvas,     \* pads drawn by the n == 1 display
  \* ---- process-wide and external state ----
  gRandom,    \* the global random generator
  disk,       \* the data file as it is on disk
  call,       \* 1 or 2: which call of MakeTimeData is running
  callerSeed, \* the seed the caller gave gRandom before the call
  first,      \* what the first call was given and what it left on disk
  \* ---- TMVA_RNN_Classification: argument and locals ----
  cpc,        \* position in TMVA_RNN_Classification
  use_type, use_rnn_type, rnn_type, archString,
  fileExist, inputFile, outputFile, factory, dataloader,
  signalTree, background,
  vi,         \* counter of the AddVariablesArray loop
  log         \* the calls made so far, in order

genvars == <<gpc, n, ntime, ndim, fname, v1, v2, f1, f2, sgn, bkg, f, x1, x2,
             mean1, mean2, sigma1, sigma2, i, j, k, canvas, gRandom,
             call, callerSeed, first>>
clsvars == <<cpc, use_type, use_rnn_type, rnn_type, archString, fileExist,
             inputFile, outputFile, factory, dataloader, signalTree,
             background, vi, log>>
vars == <<genvars, clsvars, disk>>

(***************************************************************************)
(* Bounds of the model.                                                    *)
(***************************************************************************)
MaxEvents == 2
MaxTime == 2
MaxDim == 2
MaxSeed == 2
MaxUseType == 4

(***************************************************************************)
(* Program constants.                                                      *)
(***************************************************************************)
NPoints == 1000
NoiseSigma == 10
RndRange == 97

(***************************************************************************)
(* TString::Format / Form with %d: decimal formatting.                     *)
(***************************************************************************)
Digit(d) ==
  CASE d = 0 -> "0" [] d = 1 -> "1" [] d = 2 -> "2" [] d = 3 -> "3"
    [] d = 4 -> "4" [] d = 5 -> "5" [] d = 6 -> "6" [] d = 7 -> "7"
    [] d = 8 -> "8" [] d = 9 -> "9"

RECURSIVE Dec(_)
Dec(m) ==
  IF m < 0 THEN "-" \o Dec(-m)
  ELSE IF m < 10 THEN Digit(m)
  ELSE Dec(m \div 10) \o Digit(m % 10)

\* line 44: TString::Format("time_data_t%d_d%d.root", ntime, ndim)
FormatFnameSwapped(t, d) == "time_data_t" \o Dec(d) \o "_d" \o Dec(t) \o ".root"
FormatFname(t, d) == "time_data_t" \o Dec(t) \o "_d" \o Dec(d) \o ".root"

\* lines 69, 70: Form("vars_time%d", i), the branch names
BranchName(t) == "vars_time" \o Dec(t)

\* line 258: Form("vars_time%d", i), the variable names
VariableName(t) == "vars_time" \o Dec(t)

\* lines 49, 50: TString::Format("h1_%d", i), TString::Format("h2_%d", i)
FormH(prefix, t) == prefix \o "_" \o Dec(t)

(***************************************************************************)
(* The random generator: a stream of numbers fixed by the seed; pos is the *)
(* number of values drawn since seeding.                                   *)
(***************************************************************************)
\* gRandom->SetSeed(s): 0 asks ROOT for a seed of its own (entropy).
SetSeed(g, s, entropy) ==
  IF s = 0 THEN [seed |-> entropy, pos |-> 0] ELSE [seed |-> s, pos |-> 0]

\* The value the stream of seed sd holds at position p.
Rndm(sd, p) == (sd * 37 + p * 11 + (p \div 3) * sd) % RndRange

\* gRandom->Gaus(0, sigma): one draw, here an integer in -sigma .. sigma.
Gaus(g, sigma) == (Rndm(g.seed, g.pos) % (2 * sigma + 1)) - sigma

Advance(g, m) == [g EXCEPT !.pos = @ + m]

(***************************************************************************)
(* Per-step parameters, kept as the expression that computes them:         *)
(* c0 + c1 * fn(pi * num / den).                                           *)
(***************************************************************************)
Wave(c0, c1, fn, num, den) ==
  [c0 |-> c0, c1 |-> c1, fn |-> fn, num |-> num, den |-> den]

\* line 82 .. 85
Mean1(t, nt) == Wave("5", "0.2", "sin", t, nt)
Mean2(t, nt) == Wave("5", "0.2", "cos", t, nt)
Sigma1(t, nt) == Wave("4", "0.3", "sin", t, nt)
Sigma2(t, nt) == Wave("4", "0.3", "cos", t, nt)

(***************************************************************************)
(* TF1                                                                     *)
(***************************************************************************)
NoPar == <<>>
\* new TF1(name, "gaus")
NewTF1(name) == [name |-> name, formula |-> "gaus", par |-> NoPar]
\* f->SetParameters(p0, p1, p2)
SetParameters(fn, p0, p1, p2) == [fn EXCEPT !.par = <<p0, p1, p2>>]

(***************************************************************************)
(* TH1D: bins 1 .. nbins are in range, 0 is underflow, nbins + 1 overflow. *)
(* fills lists the FillRandom calls since the last Reset.                  *)
(***************************************************************************)
NewTH1D(name, nbins) ==
  [name |-> name, nbins |-> nbins, bins |-> [b \in 0 .. nbins + 1 |-> 0],
   entries |-> 0, fills |-> <<>>]

\* h->Reset()
ResetKeeps(h) == h
Reset(h) ==
  [h EXCEPT !.bins = [b \in 0 .. h.nbins + 1 |-> 0], !.entries = 0,
            !.fills = <<>>]

\* The in-range bin the point drawn with stream value r falls in, for the
\* function with parameters par.
BinOfPoint(par, nbins, r) ==
  LET skew == IF par[2].fn = "sin" THEN par[2].num ELSE par[2].num + 1
  IN ((r + skew) % nbins) + 1

\* h->FillRandom(fn, npoints): npoints draws from gRandom, each added to the
\* in-range bin it falls in.
FillRandom(h, fn, npoints, g) ==
  LET hit(b) == Cardinality({p \in 1 .. npoints :
                  BinOfPoint(fn.par, h.nbins, Rndm(g.seed, g.pos + p - 1)) = b})
  IN [h EXCEPT
        !.bins = [b \in 0 .. h.nbins + 1 |->
                    IF b \in 1 .. h.nbins THEN h.bins[b] + hit(b) ELSE h.bins[b]],
        !.entries = @ + npoints,
        !.fills = Append(@, [fn |-> fn.name, par |-> fn.par, npoints |-> npoints,
                             at |-> g.pos])]

\* h->GetBinContent(b)
GetBinContent(h, b) == h.bins[b]

(***************************************************************************)
(* One float of a feature buffer.  val is the number; the other fields     *)
(* record how it was computed: the noise added, the stream position of the *)
(* noise draw, and the histogram, bin and fills the count was read from.   *)
(***************************************************************************)
ZeroCell == [val |-> 0, noise |-> 0, at |-> -1, hist |-> "", bin |-> -1,
             fills |-> <<>>]

\* lines 106, 107: h->GetBinContent(k + 1) + gRandom->Gaus(0, 10)
FeatureBin(kk) == kk + 1

Feature(h, kk, g) ==
  [val |-> GetBinContent(h, FeatureBin(kk)) + Gaus(g, NoiseSigma),
   noise |-> Gaus(g, NoiseSigma), at |-> g.pos, hist |-> h.name,
   bin |-> FeatureBin(kk), fills |-> h.fills]

\* lines 64, 65: std::vector<float>(ndim)
NewBuffer(nt, nd) == [t \in 0 .. nt - 1 |-> [d \in 0 .. nd - 1 |-> ZeroCell]]

(***************************************************************************)
(* TTree: a branch holds the address of the vector it reads on Fill.       *)
(***************************************************************************)
NewTree(name) ==
  [name |-> name, branches |-> <<>>, rows |-> <<>>, dir |-> "memory"]

\* tree.SetDirectory(&f)
SetDirectory(tree, file) == [tree EXCEPT !.dir = file.name]

\* tree.Branch(name, "std::vector<float>", &buf[idx])
Branch(tree, name, buf, idx) ==
  [tree EXCEPT !.branches = Append(@, [name |-> name, buf |-> buf, idx |-> idx])]

\* lines 69, 70: the buffer each tree's branches point into
BkgBuffer == "x1"
SgnBuffer == "x2"

RECURSIVE Branches(_, _, _)
\* lines 68-71 for one tree: branches vars_time0 .. vars_time(nt-1)
Branches(tree, buf, nt) ==
  IF nt = 0 THEN tree
  ELSE Branch(Branches(tree, buf, nt - 1), BranchName(nt - 1), buf, nt - 1)

\* tree.Fill(): append one row, read through the branch addresses
TreeFill(tree, b1, b2) ==
  [tree EXCEPT !.rows = Append(@,
     [m \in 1 .. Len(tree.branches) |->
        IF tree.branches[m].buf = "x1" THEN b1[tree.branches[m].idx]
        ELSE b2[tree.branches[m].idx]])]

\* tree.Write(): the tree, with every row filled so far, becomes a key of
\* its file
TreeWrite(file, tree) ==
  [file EXCEPT !.keys = {q \in @ : q.key # tree.name} \cup
     {[key |-> tree.name,
       branches |-> [m \in 1 .. Len(tree.branches) |-> tree.branches[m].name],
       rows |-> tree.rows]}]

\* TFile f(fname, "RECREATE")
Recreate(name) == [name |-> name, isOpen |-> TRUE, keys |-> {}]

\* What a file leaves on disk when it is closed: the keys written to it.
OnDisk(file) == [exists |-> TRUE, name |-> file.name, keys |-> file.keys]

NoFile == [exists |-> FALSE, name |-> "", keys |-> {}]

\* line 128: the trees are written and the file closed explicitly
WritesTrees(nn) == nn > 1

\* line 114: the histogram display
ShowsCanvas(nn) == nn = 1

(***************************************************************************)
(* MakeTimeData(n, ntime, ndim)                                            *)
(***************************************************************************)
\* Null pointers of the macro's locals.
NoTree == [key |-> "", branches |-> <<>>, entries |-> 0, widths |-> {}]
NoFactory == [name |-> "", out |-> "", methods |-> <<>>]
NoLoader ==
  [name |-> "", vars |-> <<>>, signal |-> NoTree, background |-> NoTree,
   prepare |-> ""]

\* The caller's seed: the caller seeds gRandom with it before the call.
CallerSeed == 1

NoLocals ==
  /\ fname = "" /\ v1 = <<>> /\ v2 = <<>> /\ f1 = NewTF1("") /\ f2 = NewTF1("")
  /\ sgn = NewTree("") /\ bkg = NewTree("") /\ f = [Recreate("") EXCEPT !.isOpen = FALSE]
  /\ x1 = <<>> /\ x2 = <<>>
  /\ mean1 = <<>> /\ mean2 = <<>> /\ sigma1 = <<>> /\ sigma2 = <<>>
  /\ i = 0 /\ j = 0 /\ k = 0 /\ canvas = <<>>

ClsIdle ==
  /\ cpc = "idle" /\ use_type = 0 /\ use_rnn_type = <<1, 1, 1>> /\ rnn_type = ""
  /\ archString = "" /\ fileExist = FALSE /\ inputFile = NoFile
  /\ outputFile = "" /\ factory = NoFactory /\ dataloader = NoLoader
  /\ signalTree = NoTree /\ background = NoTree /\ vi = 0 /\ log = <<>>

Init ==
  /\ gpc = "setup"
  /\ n \in 1 .. MaxEvents /\ ntime \in 1 .. MaxTime /\ ndim \in 1 .. MaxDim
  /\ callerSeed = CallerSeed
  /\ gRandom = SetSeed([seed |-> 0, pos |-> 0], callerSeed, 0)
  /\ disk = NoFile
  /\ call = 1
  /\ first = [callerSeed |-> 0, seed |-> 0, sgn |-> <<>>, bkg |-> <<>>, disk |-> NoFile]
  /\ NoLocals
  /\ ClsIdle

\* lines 44-74: histograms, functions, trees, file, buffers, branches
Setup ==
  /\ gpc = "setup"
  /\ fname' = FormatFname(ntime, ndim)
  /\ v1' = [t \in 0 .. ntime - 1 |-> NewTH1D(FormH("h1", t), ndim)]
  /\ v2' = [t \in 0 .. ntime - 1 |-> NewTH1D(FormH("h2", t), ndim)]
  /\ f1' = NewTF1("f1")
  /\ f2' = NewTF1("f2")
  /\ f' = Recreate(fname')
  /\ disk' = OnDisk(f')
  /\ x1' = NewBuffer(ntime, ndim)
  /\ x2' = NewBuffer(ntime, ndim)
  /\ bkg' = SetDirectory(Branches(NewTree("bkg"), BkgBuffer, ntime), f')
  /\ sgn' = SetDirectory(Branches(NewTree("sgn"), SgnBuffer, ntime), f')
  /\ gpc' = "seed"
  /\ UNCHANGED <<n, ntime, ndim, mean1, mean2, sigma1, sigma2, i, j, k, canvas,
                 gRandom, call, callerSeed, first, clsvars>>

\* line 75: gRandom->SetSeed(0); entropy is the seed ROOT comes up with
SeedOmitted(g, entropy) == g
SeedFromEntropy(g, entropy) == SetSeed(g, 0, entropy)

Seed ==
  /\ gpc = "seed"
  /\ \E e \in 1 .. MaxSeed : gRandom' = SeedFromEntropy(gRandom, e)
  /\ gpc' = "params"
  /\ UNCHANGED <<n, ntime, ndim, fname, v1, v2, f1, f2, sgn, bkg, f, x1, x2,
                 mean1, mean2, sigma1, sigma2, i, j, k, canvas, disk, call,
                 callerSeed, first, clsvars>>

\* lines 77-86
Params ==
  /\ gpc = "params"
  /\ mean1' = [t \in 0 .. ntime - 1 |-> Mean1(t, ntime)]
  /\ mean2' = [t \in 0 .. ntime - 1 |-> Mean2(t, ntime)]
  /\ sigma1' = [t \in 0 .. ntime - 1 |-> Sigma1(t, ntime)]
  /\ sigma2' = [t \in 0 .. ntime - 1 |-> Sigma2(t, ntime)]
  /\ i' = 0
  /\ gpc' = "event"
  /\ UNCHANGED <<n, ntime, ndim, fname, v1, v2, f1, f2, sgn, bkg, f, x1, x2,
                 j, k, canvas, gRandom, disk, call, callerSeed, first, clsvars>>

\* line 87: for (int i = 0; i < n; ++i).  Lines 89-90 only print the
\* progress line and change no state kept here.
EventLoop ==
  /\ gpc = "event"
  /\ IF i < n THEN j' = 0 /\ gpc' = "step" ELSE j' = j /\ gpc' = "write"
  /\ UNCHANGED <<n, ntime, ndim, fname, v1, v2, f1, f2, sgn, bkg, f, x1, x2,
                 mean1, mean2, sigma1, sigma2, i, k, canvas, gRandom, disk,
                 call, callerSeed, first, clsvars>>

\* lines 92-102: reset both histograms of step j and fill each with 1000
\* points of its function
StepLoop ==
  /\ gpc = "step"
  /\ IF j < ntime
     THEN LET nf1 == SetParameters(f1, 1, mean1[j], sigma1[j])
              nf2 == SetParameters(f2, 1, mean2[j], sigma2[j])
              g1 == Advance(gRandom, NPoints)
          IN /\ f1' = nf1
             /\ f2' = nf2
             /\ v1' = [v1 EXCEPT ![j] = FillRandom(Reset(@), nf1, NPoints, gRandom)]
             /\ v2' = [v2 EXCEPT ![j] = FillRandom(Reset(@), nf2, NPoints, g1)]
             /\ gRandom' = Advance(g1, NPoints)
             /\ k' = 0
             /\ gpc' = "feature"
     ELSE /\ gpc' = "fill_sgn"
          /\ UNCHANGED <<f1, f2, v1, v2, gRandom, k>>
  /\ UNCHANGED <<n, ntime, ndim, fname, sgn, bkg, f, x1, x2, mean1, mean2,
                 sigma1, sigma2, i, j, canvas, disk, call, callerSeed, first,
                 clsvars>>

\* lines 104-108: one feature of each buffer
FeatureLoop ==
  /\ gpc = "feature"
  /\ IF k < ndim
     THEN /\ x1' = [x1 EXCEPT ![j][k] = Feature(v1[j], k, gRandom)]
          /\ x2' = [x2 EXCEPT ![j][k] = Feature(v2[j], k, Advance(gRandom, 1))]
          /\ gRandom' = Advance(gRandom, 2)
          /\ k' = k + 1
          /\ UNCHANGED <<j, gpc>>
     ELSE /\ j' = j + 1
          /\ gpc' = "step"
          /\ UNCHANGED <<x1, x2, gRandom, k>>
  /\ UNCHANGED <<n, ntime, ndim, fname, v1, v2, f1, f2, sgn, bkg, f, mean1,
                 mean2, sigma1, sigma2, i, canvas, disk, call, callerSeed,
                 first, clsvars>>

\* line 111: sgn.Fill()
FillSgn ==
  /\ gpc = "fill_sgn"
  /\ sgn' = TreeFill(sgn, x1, x2)
  /\ gpc' = "fill_bkg"
  /\ UNCHANGED <<n, ntime, ndim, fname, v1, v2, f1, f2, bkg, f, x1, x2, mean1,
                 mean2, sigma1, sigma2, i, j, k, canvas, gRandom, disk, call,
                 callerSeed, first, clsvars>>

\* line 112: bkg.Fill()
FillBkg ==
  /\ gpc = "fill_bkg"
  /\ bkg' = TreeFill(bkg, x1, x2)
  /\ gpc' = "show"
  /\ UNCHANGED <<n, ntime, ndim, fname, v1, v2, f1, f2, sgn, f, x1, x2, mean1,
                 mean2, sigma1, sigma2, i, j, k, canvas, gRandom, disk, call,
                 callerSeed, first, clsvars>>

\* lines 114-127: with n == 1 the histograms are drawn, pad t + 1 showing
\* v1[t] and pad ntime + t + 1 showing v2[t]; then ++i
Show ==
  /\ gpc = "show"
  /\ canvas' = IF ShowsCanvas(n)
               THEN [p \in 1 .. 2 * ntime |->
                       IF p <= ntime THEN v1[p - 1].name ELSE v2[p - ntime - 1].name]
               ELSE canvas
  /\ i' = i + 1
  /\ gpc' = "event"
  /\ UNCHANGED <<n, ntime, ndim, fname, v1, v2, f1, f2, sgn, bkg, f, x1, x2,
                 mean1, mean2, sigma1, sigma2, j, k, gRandom, disk, call,
                 callerSeed, first, clsvars>>

\* lines 128-134: sgn.Write(); bkg.Write(); f.Close(), under n > 1
WriteClose ==
  /\ gpc = "write"
  /\ IF WritesTrees(n)
     THEN /\ f' = [TreeWrite(TreeWrite(f, sgn), bkg) EXCEPT !.isOpen = FALSE]
          /\ disk' = OnDisk(f')
     ELSE UNCHANGED <<f, disk>>
  /\ gpc' = "return"
  /\ UNCHANGED <<n, ntime, ndim, fname, v1, v2, f1, f2, sgn, bkg, x1, x2,
                 mean1, mean2, sigma1, sigma2, i, j, k, canvas, gRandom, call,
                 callerSeed, first, clsvars>>

\* line 135: the locals go out of scope; a file still open is closed with
\* the keys written to it so far
Return ==
  /\ gpc = "return"
  /\ IF f.isOpen
     THEN f' = [f EXCEPT !.isOpen = FALSE] /\ disk' = OnDisk(f)
     ELSE UNCHANGED <<f, disk>>
  /\ gpc' = "done"
  /\ UNCHANGED <<n, ntime, ndim, fname, v1, v2, f1, f2, sgn, bkg, x1, x2,
                 mean1, mean2, sigma1, sigma2, i, j, k, canvas, gRandom, call,
                 callerSeed, first, clsvars>>

\* The caller runs MakeTimeData again with the same arguments, after seeding
\* gRandom with the same seed (reseed) or with gRandom left as the first call
\* left it.
CallAgain ==
  /\ gpc = "done" /\ call = 1
  /\ first' = [callerSeed |-> callerSeed, seed |-> gRandom.seed,
               sgn |-> sgn.rows, bkg |-> bkg.rows, disk |-> disk]
  /\ call' = 2
  /\ \E reseed \in BOOLEAN :
       /\ callerSeed' = IF reseed THEN CallerSeed ELSE 0
       /\ gRandom' = IF reseed THEN SetSeed(gRandom, CallerSeed, 0) ELSE gRandom
  /\ gpc' = "setup"
  /\ fname' = "" /\ v1' = <<>> /\ v2' = <<>>
  /\ f1' = NewTF1("") /\ f2' = NewTF1("")
  /\ sgn' = NewTree("") /\ bkg' = NewTree("")
  /\ f' = [Recreate("") EXCEPT !.isOpen = FALSE]
  /\ x1' = <<>> /\ x2' = <<>>
  /\ mean1' = <<>> /\ mean2' = <<>> /\ sigma1' = <<>> /\ sigma2' = <<>>
  /\ i' = 0 /\ j' = 0 /\ k' = 0 /\ canvas' = <<>>
  /\ UNCHANGED <<n, ntime, ndim, disk, clsvars>>

Next ==
  \/ Setup \/ Seed \/ Params \/ EventLoop \/ StepLoop \/ FeatureLoop
  \/ FillSgn \/ FillBkg \/ Show \/ WriteClose \/ Return \/ CallAgain

Spec == Init /\ [][Next]_vars

(***************************************************************************)
(* What MakeTimeData leaves on disk, without the values: per key the       *)
(* branch names, the number of rows and the widths of the stored vectors.  *)
(***************************************************************************)
Summary(d) ==
  [exists |-> d.exists, name |-> d.name,
   keys |-> {[key |-> q.key, branches |-> q.branches, entries |-> Len(q.rows),
              widths |-> {Cardinality(DOMAIN q.rows[r][m]) :
                            r \in 1 .. Len(q.rows), m \in 1 .. Len(q.branches)}] :
               q \in d.keys}]

TreeSummary(tree, nn, nd) ==
  [key |-> tree.name,
   branches |-> [m \in 1 .. Len(tree.branches) |-> tree.branches[m].name],
   entries |-> nn, widths |-> {nd}]

\* lines 44-135 as one step: the file MakeTimeData(nn, nt, nd) leaves
MakeTimeDataSummary(nn, nt, nd) ==
  [exists |-> TRUE, name |-> FormatFname(nt, nd),
   keys |-> IF WritesTrees(nn)
            THEN {TreeSummary(Branches(NewTree("sgn"), SgnBuffer, nt), nn, nd),
                  TreeSummary(Branches(NewTree("bkg"), BkgBuffer, nt), nn, nd)}
            ELSE {}]

\* The step-by-step run leaves exactly what the one-step form says.
SummaryAgrees ==
  gpc = "done" => Summary(disk) = MakeTimeDataSummary(n, ntime, ndim)

(***************************************************************************)
(* TMVA_RNN_Classification(use_type)                                       *)
(***************************************************************************)
\* lines 145-150
ninput == 30
cls_ntime == 10
batchSize == 100
maxepochs == 20
nTotEvts == 10000

\* line 159
rnn_types == <<"RNN", "LSTM", "GRU">>

\* line 200
inputFileName == "time_data_t10_d30.root"

\* lines 160-164
SelectTypes(ut) ==
  IF ut >= 0 /\ ut < 3
  THEN [m \in 1 .. 3 |-> IF m = ut + 1 THEN 1 ELSE 0]
  ELSE <<1, 1, 1>>

\* gSystem->AccessPathName(name): FALSE when the path can be accessed
AccessPathName(d, name) == ~(d.exists /\ d.name = name)

\* line 202: bool fileExist = !gSystem->AccessPathName(inputFileName)
FileExistNotNegated(access) == access
FileExist(access) == ~access

\* line 205: if (!fileExist)
MustGenerate(exist) == ~exist

\* TFile::Open(name): the file, or null when it is not there or cannot be
\* read
TFileOpen(d, name, readable) ==
  IF d.exists /\ d.name = name /\ readable THEN d ELSE NoFile

\* line 210: if (!inputFile)
IsNullNever(file) == FALSE
IsNull(file) == ~file.exists

\* file->Get(key)
Get(file, key) ==
  IF \E q \in file.keys : q.key = key
  THEN CHOOSE q \in file.keys : q.key = key
  ELSE NoTree

\* line 293: const char* rnn_type = rnn_types[0].c_str()
BookedType(ut) == rnn_types[1]

\* line 299
InputLayoutString == "InputLayout=" \o Dec(cls_ntime) \o "|" \o Dec(ninput)
\* line 303
RnnLayout(kind) ==
  kind \o "|10|" \o Dec(ninput) \o "|" \o Dec(cls_ntime) \o "|0|1"
\* line 307
LayoutString(kind) ==
  "Layout=" \o RnnLayout(kind) \o ",RESHAPE|FLAT,DENSE|64|TANH,LINEAR"
\* lines 310-318
TrainingStrategyString ==
  "TrainingStrategy=LearningRate=1e-3,Momentum=0.0,Repetitions=1,"
  \o "ConvergenceSteps=5,BatchSize=" \o Dec(batchSize) \o ",TestRepetitions=1,"
  \o "WeightDecay=1e-2,Regularization=None,MaxEpochs=" \o Dec(maxepochs)
  \o ",Optimizer=ADAM,DropConfig=0.0+0.+0.+0."
\* lines 321-331
RnnOptions(kind, arch) ==
  "!H:V:ErrorStrategy=CROSSENTROPY:VarTransform=None:"
  \o "WeightInitialization=XAVIERUNIFORM:ValidationSize=0.2:RandomSeed=1234"
  \o ":" \o InputLayoutString \o ":" \o LayoutString(kind) \o ":"
  \o TrainingStrategyString \o ":" \o "Architecture=" \o arch

\* line 276
PrepareOptions ==
  "nTrain_Signal=" \o Dec((8 * nTotEvts) \div 10) \o ":nTrain_Background="
  \o Dec((8 * nTotEvts) \div 10)
  \o ":SplitMode=Random:SplitSeed=100:NormMode=NumEvents:!V:!CalcCorrelations"

\* One entry of log: the call, its argument and what it returned.
Called(c, arg, ret) == [call |-> c, arg |-> arg, ret |-> ret]

GenIdle ==
  /\ gpc = "idle" /\ n = 0 /\ ntime = 0 /\ ndim = 0
  /\ gRandom = [seed |-> 0, pos |-> 0]
  /\ call = 0 /\ callerSeed = 0
  /\ first = [callerSeed |-> 0, seed |-> 0, sgn |-> <<>>, bkg |-> <<>>, disk |-> NoFile]
  /\ NoLocals

InitCls ==
  /\ cpc = "select"
  /\ use_type \in -1 .. MaxUseType
  /\ disk \in {NoFile, MakeTimeDataSummary(nTotEvts, cls_ntime, ninput)}
  /\ use_rnn_type = <<1, 1, 1>> /\ rnn_type = "" /\ archString = ""
  /\ fileExist = FALSE /\ inputFile = NoFile /\ outputFile = ""
  /\ factory = NoFactory /\ dataloader = NoLoader
  /\ signalTree = NoTree /\ background = NoTree /\ vi = 0 /\ log = <<>>
  /\ GenIdle

\* lines 159-164
C_Select ==
  /\ cpc = "select"
  /\ use_rnn_type' = SelectTypes(use_type)
  /\ cpc' = "config"
  /\ UNCHANGED <<use_type, rnn_type, archString, fileExist, inputFile,
                 outputFile, factory, dataloader, signalTree, background, vi,
                 log, disk, genvars>>

\* lines 165-198: the build decides the architecture (R__HAS_TMVAGPU)
C_Config ==
  /\ cpc = "config"
  /\ \E useGPU \in BOOLEAN : archString' = IF useGPU THEN "GPU" ELSE "CPU"
  /\ rnn_type' = "RNN"
  /\ log' = log \o <<Called("EnableImplicitMT", "0", "void"),
                     Called("TMVA::Config::Instance", "", "void")>>
  /\ cpc' = "access"
  /\ UNCHANGED <<use_type, use_rnn_type, fileExist, inputFile, outputFile,
                 factory, dataloader, signalTree, background, vi, disk, genvars>>

\* lines 200-202
C_Access ==
  /\ cpc = "access"
  /\ LET access == AccessPathName(disk, inputFileName)
     IN /\ fileExist' = FileExist(access)
        /\ log' = Append(log, Called("AccessPathName", inputFileName,
                                     IF access THEN "true" ELSE "false"))
  /\ cpc' = "generate"
  /\ UNCHANGED <<use_type, use_rnn_type, rnn_type, archString, inputFile,
                 outputFile, factory, dataloader, signalTree, background, vi,
                 disk, genvars>>

\* lines 205-207: MakeTimeData(nTotEvts, ntime, ninput); the file is left on
\* disk unless it could not be created
C_Generate ==
  /\ cpc = "generate"
  /\ IF MustGenerate(fileExist)
     THEN /\ \E created \in BOOLEAN :
               disk' = IF created
                       THEN MakeTimeDataSummary(nTotEvts, cls_ntime, ninput)
                       ELSE disk
          /\ log' = Append(log, Called("MakeTimeData", "", "void"))
     ELSE UNCHANGED <<disk, log>>
  /\ cpc' = "open"
  /\ UNCHANGED <<use_type, use_rnn_type, rnn_type, archString, fileExist,
                 inputFile, outputFile, factory, dataloader, signalTree,
                 background, vi, genvars>>

\* line 209
C_Open ==
  /\ cpc = "open"
  /\ \E readable \in BOOLEAN :
       inputFile' = TFileOpen(disk, inputFileName, readable)
  /\ log' = Append(log, Called("TFile::Open", inputFileName,
                               IF inputFile'.exists THEN "file" ELSE "null"))
  /\ cpc' = "check"
  /\ UNCHANGED <<use_type, use_rnn_type, rnn_type, archString, fileExist,
                 outputFile, factory, dataloader, signalTree, background, vi,
                 disk, genvars>>

\* lines 210-213
C_Check ==
  /\ cpc = "check"
  /\ IF IsNull(inputFile)
     THEN /\ log' = Append(log, Called("Error", inputFileName, "void"))
          /\ cpc' = "done"
     ELSE /\ cpc' = "output"
          /\ UNCHANGED log
  /\ UNCHANGED <<use_type, use_rnn_type, rnn_type, archString, fileExist,
                 inputFile, outputFile, factory, dataloader, signalTree,
                 background, vi, disk, genvars>>

\* lines 215-221
C_Output ==
  /\ cpc = "output"
  /\ outputFile' = "data_RNN_" \o archString \o ".root"
  /\ log' = Append(log, Called("TFile::Open", outputFile', "file"))
  /\ cpc' = "factory"
  /\ UNCHANGED <<use_type, use_rnn_type, rnn_type, archString, fileExist,
                 inputFile, factory, dataloader, signalTree, background, vi,
                 disk, genvars>>

\* lines 245-249
C_Factory ==
  /\ cpc = "factory"
  /\ factory' = [name |-> "TMVAClassification", out |-> outputFile, methods |-> <<>>]
  /\ dataloader' = [NoLoader EXCEPT !.name = "dataset"]
  /\ log' = log \o <<Called("new TMVA::Factory", "TMVAClassification", "factory"),
                     Called("new TMVA::DataLoader", "dataset", "dataloader")>>
  /\ cpc' = "trees"
  /\ UNCHANGED <<use_type, use_rnn_type, rnn_type, archString, fileExist,
                 inputFile, outputFile, signalTree, background, vi, disk,
                 genvars>>

\* lines 251-254
C_GetTrees ==
  /\ cpc = "trees"
  /\ signalTree' = Get(inputFile, "sgn")
  /\ background' = Get(inputFile, "bkg")
  /\ log' = log \o <<Called("Get", "sgn", signalTree'.key),
                     Called("Get", "bkg", background'.key)>>
  /\ vi' = 0
  /\ cpc' = "variables"
  /\ UNCHANGED <<use_type, use_rnn_type, rnn_type, archString, fileExist,
                 inputFile, outputFile, factory, dataloader, disk, genvars>>

\* lines 257-259: dataloader->AddVariablesArray(Form("vars_time%d", i), ninput)
C_AddVariables ==
  /\ cpc = "variables"
  /\ IF vi < cls_ntime
     THEN /\ dataloader' = [dataloader EXCEPT !.vars =
                              Append(@, [name |-> VariableName(vi), size |-> ninput])]
          /\ log' = Append(log, Called("AddVariablesArray", VariableName(vi), "void"))
          /\ vi' = vi + 1
          /\ UNCHANGED cpc
     ELSE /\ cpc' = "addtrees"
          /\ UNCHANGED <<dataloader, log, vi>>
  /\ UNCHANGED <<use_type, use_rnn_type, rnn_type, archString, fileExist,
                 inputFile, outputFile, factory, signalTree, background, disk,
                 genvars>>

\* lines 261-262
C_AddTrees ==
  /\ cpc = "addtrees"
  /\ dataloader' = [dataloader EXCEPT !.signal = signalTree,
                                      !.background = background]
  /\ log' = log \o <<Called("AddSignalTree", signalTree.key, "void"),
                     Called("AddBackgroundTree", background.key, "void")>>
  /\ cpc' = "prepare"
  /\ UNCHANGED <<use_type, use_rnn_type, rnn_type, archString, fileExist,
                 inputFile, outputFile, factory, signalTree, background, vi,
                 disk, genvars>>

\* lines 265-284
C_Prepare ==
  /\ cpc = "prepare"
  /\ dataloader' = [dataloader EXCEPT !.prepare = PrepareOptions]
  /\ log' = Append(log, Called("PrepareTrainingAndTestTree", PrepareOptions, "void"))
  /\ cpc' = "book"
  /\ UNCHANGED <<use_type, use_rnn_type, rnn_type, archString, fileExist,
                 inputFile, outputFile, factory, signalTree, background, vi,
                 disk, genvars>>

\* lines 293-334
C_Book ==
  /\ cpc = "book"
  /\ rnn_type' = BookedType(use_type)
  /\ factory' = [factory EXCEPT !.methods =
                   Append(@, [name |-> "TMVA_" \o rnn_type', type |-> "kDL",
                              layout |-> LayoutString(rnn_type'),
                              options |-> RnnOptions(rnn_type', archString)])]
  /\ log' = Append(log, Called("BookMethod", "TMVA_" \o rnn_type', "method"))
  /\ cpc' = "end"
  /\ UNCHANGED <<use_type, use_rnn_type, archString, fileExist, inputFile,
                 outputFile, dataloader, signalTree, background, vi, disk,
                 genvars>>

\* line 335: the closing brace of the function.  The statements of lines
\* 345-362 (TrainAllMethods, TestAllMethods, EvaluateAllMethods, GetROCCurve,
\* outputFile->Close()) come after it, outside the function body: no call of
\* TMVA_RNN_Classification runs them.
C_Return ==
  /\ cpc = "end"
  /\ cpc' = "done"
  /\ UNCHANGED <<use_type, use_rnn_type, rnn_type, archString, fileExist,
                 inputFile, outputFile, factory, dataloader, signalTree,
                 background, vi, log, disk, genvars>>

NextCls ==
  \/ C_Select \/ C_Config \/ C_Access \/ C_Generate \/ C_Open \/ C_Check
  \/ C_Output \/ C_Factory \/ C_GetTrees \/ C_AddVariables \/ C_AddTrees
  \/ C_Prepare \/ C_Book \/ C_Return

SpecCls == InitCls /\ [][NextCls]_vars

(***************************************************************************)
(* Properties of MakeTimeData, checked under Spec.                         *)
(***************************************************************************)
\* The collection stored under key name holds nn rows of nt columns, each
\* a vector of nd values.
HoldsCollection(file, name, nn, nt, nd) ==
  \E q \in file.keys :
    /\ q.key = name
    /\ Len(q.rows) = nn
    /\ Len(q.branches) = nt
    /\ \A r \in 1 .. Len(q.rows) :
         /\ DOMAIN q.rows[r] = 1 .. nt
         /\ \A m \in 1 .. nt : DOMAIN q.rows[r][m] = 0 .. nd - 1

\* C1: for every valid (n, ntime, ndim), n = 1 included, when MakeTimeData
\* has returned the data file on disk holds a "sgn" and a "bkg" collection of
\* exactly n rows each, every row with ntime columns of ndim values.
C1_PersistedShape ==
  gpc = "done" =>
    /\ disk.exists
    /\ HoldsCollection(disk, "sgn", n, ntime, ndim)
    /\ HoldsCollection(disk, "bkg", n, ntime, ndim)

\* The part of C1 the code does keep: the shape holds whenever n > 1, and
\* the trees in memory have it for every n.
ShapeWhenWritten ==
  gpc = "done" =>
    /\ n > 1 => /\ HoldsCollection(disk, "sgn", n, ntime, ndim)
                /\ HoldsCollection(disk, "bkg", n, ntime, ndim)
    /\ n = 1 => disk.exists /\ disk.keys = {}
    /\ Len(sgn.rows) = n /\ Len(bkg.rows) = n
    /\ \A r \in 1 .. n : \A m \in 1 .. ntime :
         /\ DOMAIN sgn.rows[r][m] = 0 .. ndim - 1
         /\ DOMAIN bkg.rows[r][m] = 0 .. ndim - 1

\* The parameters the specification gives each class at time step t: the
\* sine wave to the signal, the cosine wave to the background.
ClassPar(fn, t) ==
  <<1, Wave("5", "0.2", fn, t, ntime), Wave("4", "0.3", fn, t, ntime)>>
SignalPar(t) == ClassPar("sin", t)
BackgroundPar(t) == ClassPar("cos", t)

\* The value was read from a histogram filled with the parameters par only.
BuiltFrom(cell, par) ==
  /\ Len(cell.fills) >= 1
  /\ \A e \in 1 .. Len(cell.fills) : cell.fills[e].par = par

\* Every value of every row of the tree comes from the fn wave of its step.
RowsBuiltFrom(tree, fn) ==
  \A r \in 1 .. Len(tree.rows) : \A m \in 1 .. Len(tree.branches) :
    \A d \in 0 .. ndim - 1 : BuiltFrom(tree.rows[r][m][d], ClassPar(fn, m - 1))

\* C2: every vector stored in tree "sgn" for time step t is built from the
\* histogram filled with the signal parameters (the sine ones), every vector
\* stored in tree "bkg" from the one filled with the background parameters
\* (the cosine ones).
C2_ClassesNotSwapped ==
  /\ RowsBuiltFrom(sgn, "sin")
  /\ RowsBuiltFrom(bkg, "cos")

\* What the code does instead: "sgn" holds the cosine vectors, "bkg" the
\* sine ones.
ClassesSwapped ==
  /\ RowsBuiltFrom(sgn, "cos")
  /\ RowsBuiltFrom(bkg, "sin")

\* C7: with n = 1 the display changes nothing of the data, and the single
\* signal row and the single background row are on disk when MakeTimeData
\* has returned, as the rows are for n > 1.
C7_SingleEventPersisted ==
  (gpc = "done" /\ n = 1) =>
    /\ Len(sgn.rows) = 1 /\ Len(bkg.rows) = 1
    /\ \E q \in disk.keys : q.key = "sgn" /\ q.rows = sgn.rows
    /\ \E q \in disk.keys : q.key = "bkg" /\ q.rows = bkg.rows

\* The part of C7 the code does keep: the display step changes no buffer,
\* no tree and nothing on disk.
ShowChangesNoData ==
  [][gpc = "show" => UNCHANGED <<x1, x2, v1, v2, sgn, bkg, f, disk>>]_vars

\* Stream position at which event e starts: every time step draws 2 * NPoints
\* points and 2 * ndim noise values.
EventStart(e) == e * ntime * (2 * NPoints + 2 * ndim)
StepStart(e, t) == EventStart(e) + t * (2 * NPoints + 2 * ndim)

\* Histogram h was reset and then filled once, with the NPoints points drawn
\* at stream position at.
FilledOnceAt(fills, at) ==
  /\ Len(fills) = 1
  /\ fills[1].npoints = NPoints
  /\ fills[1].at = at

\* Buffer cell c of step t, feature d was written during event e from bin
\* d + 1 of histogram h as it is now.
FreshCell(c, h, e, t, d, at) ==
  /\ c.at >= StepStart(e, t) + 2 * NPoints
  /\ c.at < StepStart(e, t + 1)
  /\ c.hist = h.name
  /\ c.bin = d + 1 /\ c.bin >= 1 /\ c.bin <= h.nbins /\ h.nbins = ndim
  /\ c.val = GetBinContent(h, d + 1) + c.noise
  /\ c.fills = h.fills
  /\ FilledOnceAt(h.fills, at)
  /\ h.entries = NPoints

\* Every cell of row r was written during event r - 1 from a histogram filled
\* once, during that event.
RowOfEvent(row, e) ==
  \A m \in 1 .. ntime : \A d \in 0 .. ndim - 1 :
    /\ row[m][d].at >= EventStart(e) /\ row[m][d].at < EventStart(e + 1)
    /\ Len(row[m][d].fills) = 1
    /\ row[m][d].fills[1].npoints = NPoints
    /\ row[m][d].fills[1].at >= EventStart(e)
    /\ row[m][d].fills[1].at < EventStart(e + 1)

\* C10: at every sgn.Fill / bkg.Fill of event i every entry of both buffers
\* has been rewritten during event i, and entry (t, d) is the content of
\* in-range bin d + 1 of a histogram reset and then filled with exactly the
\* 1000 points of event i, step t, plus one noise draw; row r of either tree
\* holds data of event r - 1 only; and the trees grow in lockstep.
C10_NoLeakAcrossEvents ==
  /\ gpc \in {"fill_sgn", "fill_bkg"} =>
       \A t \in 0 .. ntime - 1 : \A d \in 0 .. ndim - 1 :
         /\ FreshCell(x1[t][d], v1[t], i, t, d, StepStart(i, t))
         /\ FreshCell(x2[t][d], v2[t], i, t, d, StepStart(i, t) + NPoints)
  /\ \A r \in 1 .. Len(sgn.rows) : RowOfEvent(sgn.rows[r], r - 1)
  /\ \A r \in 1 .. Len(bkg.rows) : RowOfEvent(bkg.rows[r], r - 1)
  /\ gpc # "fill_bkg" => Len(sgn.rows) = Len(bkg.rows)
  /\ gpc = "fill_bkg" => Len(sgn.rows) = Len(bkg.rows) + 1
  /\ gpc \in {"event", "step", "feature", "fill_sgn"} => Len(sgn.rows) = i

\* C10 witness: the second event is being appended, its buffers and
\* histograms having served the first event before.
C10_Witness ==
  /\ gpc = "fill_bkg" /\ i = 1 /\ ntime > 1 /\ ndim > 1
  /\ Len(sgn.rows) = 2 /\ Len(bkg.rows) = 1

CallerSeedDecides ==
  (gpc = "done" /\ call = 2 /\ callerSeed = first.callerSeed) =>
    /\ sgn.rows = first.sgn /\ bkg.rows = first.bkg /\ disk = first.disk

(***************************************************************************)
(* Properties of TMVA_RNN_Classification, checked under SpecCls.           *)
(***************************************************************************)
\* Positions of log holding a call of c, and of the opening of the data file.
Calls(c) == {m \in 1 .. Len(log) : log[m].call = c}
InputOpens ==
  {m \in 1 .. Len(log) : log[m].call = "TFile::Open" /\ log[m].arg = inputFileName}
Opened == ~IsNull(inputFile)

\* The kinds the doc comment of lines 137-141 gives each use_type.
DocumentedKinds(ut) ==
  CASE ut = 0 -> {"RNN"}
    [] ut = 1 -> {"LSTM"}
    [] ut = 2 -> {"GRU"}
    [] ut = 3 -> {"RNN", "LSTM", "GRU"}

\* C3: use_type 0, 1, 2 books one method, of kind RNN, LSTM, GRU, and
\* use_type 3 books the three; method name and layer kind of the layout
\* string are those of the selected kind.
C3_BooksSelectedKind ==
  (cpc = "done" /\ Opened /\ use_type \in 0 .. 3) =>
    /\ Len(factory.methods) = Cardinality(DocumentedKinds(use_type))
    /\ {<<factory.methods[m].name, factory.methods[m].layout>> :
          m \in 1 .. Len(factory.methods)}
       = {<<"TMVA_" \o kd,
            "Layout=" \o kd \o "|10|30|10|0|1,RESHAPE|FLAT,DENSE|64|TANH,LINEAR">> :
            kd \in DocumentedKinds(use_type)}

\* What the code does instead: one method, TMVA_RNN, whatever use_type is.
AlwaysBooksRNN ==
  (cpc = "done" /\ Opened) =>
    /\ Len(factory.methods) = 1
    /\ factory.methods[1].name = "TMVA_RNN"
    /\ factory.methods[1].layout
         = "Layout=RNN|10|30|10|0|1,RESHAPE|FLAT,DENSE|64|TANH,LINEAR"

\* C4: a run whose data file opened has, when it ends, called after
\* BookMethod TrainAllMethods, TestAllMethods, EvaluateAllMethods and
\* GetROCCurve, once each and in that order, and then closed the output file.
C4_TrainTestEvaluateInOrder ==
  (cpc = "done" /\ Opened) =>
    \E b \in Calls("BookMethod") : \E t \in Calls("TrainAllMethods") :
    \E e \in Calls("TestAllMethods") : \E v \in Calls("EvaluateAllMethods") :
    \E r \in Calls("GetROCCurve") : \E c \in Calls("Close") :
      /\ b < t /\ t < e /\ e < v /\ v < r /\ r < c
      /\ Calls("TrainAllMethods") = {t} /\ Calls("TestAllMethods") = {e}
      /\ Calls("EvaluateAllMethods") = {v} /\ Calls("GetROCCurve") = {r}

\* What the code does instead: the run ends with BookMethod.
RunEndsWithBooking ==
  (cpc = "done" /\ Opened) => log[Len(log)].call = "BookMethod"

\* C5: the existence check comes before anything is loaded; MakeTimeData is
\* called if and only if the check found no file, and then once; an existing
\* file is never regenerated; the file is opened after the generation.
C5_GenerateIffMissing ==
  LET gens == Calls("MakeTimeData")
      acc == Calls("AccessPathName")
  IN /\ Cardinality(gens) <= 1 /\ Cardinality(acc) <= 1
     /\ Cardinality(InputOpens) <= 1
     /\ \A g \in gens : \E a \in acc : a < g /\ log[a].ret = "true"
     /\ \A o \in InputOpens : \E a \in acc :
          /\ a < o
          /\ log[a].ret = "true" => \E g \in gens : a < g /\ g < o
          /\ log[a].ret = "false" => gens = {}
     /\ cpc \notin {"select", "config", "access", "generate"} =>
          \E a \in acc : (log[a].ret = "true") <=> (gens # {})
     /\ \A m \in 1 .. Len(log) :
          log[m].call \in {"TFile::Open", "Get", "AddVariablesArray",
                           "AddSignalTree", "AddBackgroundTree"}
            => \E a \in acc : a < m

\* C5 witness: the file was missing, was generated once, and was opened.
C5_Witness ==
  /\ cpc = "done" /\ Opened /\ ~fileExist
  /\ Cardinality(Calls("MakeTimeData")) = 1
  /\ \E g \in Calls("MakeTimeData") : \E o \in InputOpens : g < o

\* C6: once the data file failed to open, the run reports the error and ends:
\* no output file, no factory, no data loader, no variable, no booking.
C6_AbortOnMissingInput ==
  (\E o \in InputOpens : log[o].ret = "null") =>
    /\ cpc \in {"check", "done"}
    /\ cpc = "done" =>
         /\ log[Len(log)].call = "Error"
         /\ Len(log) - 1 \in InputOpens
    /\ outputFile = "" /\ factory = NoFactory /\ dataloader = NoLoader
    /\ signalTree = NoTree /\ background = NoTree
    /\ \A m \in 1 .. Len(log) :
         log[m].call \notin {"new TMVA::Factory", "new TMVA::DataLoader", "Get",
                             "AddVariablesArray", "AddSignalTree",
                             "AddBackgroundTree", "PrepareTrainingAndTestTree",
                             "BookMethod"}
    /\ \A m \in 1 .. Len(log) :
         log[m].call = "TFile::Open" => log[m].arg = inputFileName

\* C6 witness: the file was missing, the generation left none, and the run
\* ended on the error.
C6_Witness ==
  /\ cpc = "done" /\ ~Opened
  /\ Calls("MakeTimeData") # {}
  /\ log[Len(log)].call = "Error"

\* C9: the macro opens the file MakeTimeData(nTotEvts, ntime, ninput) writes,
\* reads the two trees it creates, and declares exactly the columns, with
\* their width, that both trees hold.
C9_ConsumesWhatIsGenerated ==
  LET made == MakeTimeDataSummary(nTotEvts, cls_ntime, ninput)
      declared == {<<dataloader.vars[m].name, dataloader.vars[m].size>> :
                     m \in 1 .. Len(dataloader.vars)}
      columns(q) == {<<q.branches[m], w>> : m \in 1 .. Len(q.branches), w \in q.widths}
  IN /\ inputFileName = made.name
     /\ (Calls("MakeTimeData") # {} /\ Opened) => inputFile = made
     /\ (Opened /\ cpc \in {"variables", "addtrees", "prepare", "book", "end", "done"}) =>
          /\ signalTree # NoTree /\ background # NoTree
          /\ made.keys = {signalTree, background}
     /\ (Opened /\ cpc \in {"addtrees", "prepare", "book", "end", "done"}) =>
          /\ Len(dataloader.vars) = cls_ntime
          /\ \A q \in made.keys : columns(q) = declared

\* C9 witness: the file was generated in this run and every variable is
\* declared.
C9_Witness ==
  /\ cpc = "done" /\ Opened /\ Calls("MakeTimeData") # {}
  /\ Len(dataloader.vars) = cls_ntime
  /\ signalTree.key = "sgn" /\ background.key = "bkg"
  /\ signalTree.entries = nTotEvts

====
